---- MODULE Spec2Model ----
(***************************************************************************)
(* A model of python-agent/python_service.py: the aiohttp handler          *)
(* handle_req, the handle_call task it spawns per request, the             *)
(* iceconnectionstatechange callback handle_call registers, and the        *)
(* single-threaded asyncio event loop that runs all of them.               *)
(*                                                                         *)
(* One event loop thread: `running` names the coroutine that holds it.     *)
(* A coroutine gives the thread up only at an `await` or when it ends; a   *)
(* synchronous call (generate_tts, requests.post) keeps it for the whole   *)
(* call.  Request r spawns task r, which owns media session r.             *)
(*                                                                         *)
(* In the repository the whole text of python_service.py stands between    *)
(* two triple-quote lines (a module-level string); the model is of the     *)
(* program that text defines.  The media stack (aiortc), the event         *)
(* emitter and the HTTP client are not part of the repository: the model   *)
(* takes from them only that an async handler attached with pc.on is       *)
(* scheduled on the loop when the event is emitted, that ICE state changes *)
(* are emitted on change, and that requests.post returns or raises.        *)
(***************************************************************************)
EXTENDS Integers, Sequences, FiniteSets

\* Requests received in one behaviour.
MaxReqs == 2
\* ICE connection state changes reported in one behaviour, all sessions
\* together.
MaxIce == 2

Reqs == 1..MaxReqs
NoTask == 0

\* The shapes of an inbound body: not JSON at all, JSON without the "id"
\* key, an event other than "connect", a connect event.
Shapes == {"not_json", "no_id", "ringing", "connect"}
CallIds == {"C1", "C2"}
\* An SDP is a pair: what it is, and the session that produced it (0: none
\* of this program's sessions).
OFFER_X == <<"OFFER", 0>>
\* The answer SDP session t's negotiation produces; no two sessions produce
\* the same one (an SDP carries its session's own ICE credentials).
AnswerOf(t) == <<"ANSWER", t>>
NoSdp == <<"none", 0>>

\* RTCPeerConnection.iceConnectionState; "new" until the first change.
IceStates == {"connecting", "connected", "failed"}
\* What a requests.post call ends with: a 2xx response, a non-2xx response
\* (returned like the 2xx one, and dropped unread), or an exception.
PostOutcomes == {"2xx", "non2xx", "neterr"}

VARIABLES
    req,        \* r -> the body of request r: [shape, id]
    reqpc,      \* r -> position of handle_req(r): "idle", "await_json", "done"
    response,   \* r -> what handle_req(r) answered: "none", "OK", "error"
    pc,         \* t -> position of handle_call task t
    result,     \* t -> how task t ended: "none", "ignored", "TTS sent", or the exception
    answer,     \* t -> the SDP createAnswer returned
    localSdp,   \* t -> pc.localDescription.sdp of session t
    registered, \* t -> the iceconnectionstatechange handler is attached
    iceState,   \* t -> pc.iceConnectionState of session t
    iceCount,   \* ICE state changes reported so far
    cbQueue,    \* t -> scheduled handler invocations, each with the state notified
    cbpc,       \* t -> position of the running handler: "idle", "accept_post"
    lastRead,   \* t -> state the latest handler invocation read
    wav,        \* the task that last wrote /tmp/welcome.wav (NoTask: no file)
    running,    \* the task whose coroutine holds the event loop thread
    log         \* the signaling POSTs issued, in order

vars == <<req, reqpc, response, pc, result, answer, localSdp,
          registered, iceState, iceCount, cbQueue, cbpc, lastRead, wav,
          running, log>>

reqVars == <<req, reqpc, response>>
iceVars == <<iceState, iceCount, cbQueue, cbpc, lastRead>>
negVars == <<answer, localSdp, registered>>

Init ==
    /\ req = [r \in Reqs |-> [shape |-> "not_json", id |-> "C1"]]
    /\ reqpc = [r \in Reqs |-> "idle"]
    /\ response = [r \in Reqs |-> "none"]
    /\ pc = [t \in Reqs |-> "none"]
    /\ result = [t \in Reqs |-> "none"]
    /\ answer = [t \in Reqs |-> NoSdp]
    /\ localSdp = [t \in Reqs |-> NoSdp]
    /\ registered = [t \in Reqs |-> FALSE]
    /\ iceState = [t \in Reqs |-> "new"]
    /\ iceCount = 0
    /\ cbQueue = [t \in Reqs |-> <<>>]
    /\ cbpc = [t \in Reqs |-> "idle"]
    /\ lastRead = [t \in Reqs |-> "none"]
    /\ wav = NoTask
    /\ running = NoTask
    /\ log = <<>>

\* The event loop can start or resume a coroutine only when no coroutine
\* holds its thread.
LoopFree == running = NoTask

-----------------------------------------------------------------------------
(* handle_req *)

\* A dispatcher that answers by event kind.
AckBody_ByEventKind(r) ==
    IF req[r].shape = "connect" THEN "OK" ELSE "ignored"

\* The text of the acknowledgment, line 91.
AckBody(r) == "OK"

\* A request reaches the server: handle_req runs to `await req.json()`.
\* Requests are numbered in their order of arrival.
Req_Arrive(r) ==
    /\ LoopFree
    /\ reqpc[r] = "idle"
    /\ \A q \in Reqs : q < r => reqpc[q] # "idle"
    /\ \E s \in Shapes, i \in CallIds :
         \* the code reads the id of a connect event only, and compares ids
         \* with nothing: which id comes first does not matter
         /\ (s # "connect" \/ r = 1 => i = "C1")
         /\ req' = [req EXCEPT ![r] = [shape |-> s, id |-> i]]
    /\ reqpc' = [reqpc EXCEPT ![r] = "await_json"]
    /\ UNCHANGED <<response, pc, result, negVars, iceVars, wav, running, log>>

\* handle_req awaiting handle_call(data) instead of spawning it: the
\* acknowledgment is withheld until the run returns.
Req_Resume_AwaitsRun(r) ==
    /\ LoopFree
    /\ reqpc[r] = "await_json"
    /\ reqpc' = [reqpc EXCEPT ![r] = "done"]
    /\ IF req[r].shape = "not_json"
         THEN /\ response' = [response EXCEPT ![r] = "error"]
              /\ pc' = pc
         ELSE /\ pc' = [pc EXCEPT ![r] = "ready"]
              /\ response' = response
    /\ UNCHANGED <<req, result, negVars, iceVars, wav, running, log>>

\* handle_req spawning no second run for a call_id it has already seen.
Req_Resume_Dedups(r) ==
    /\ LoopFree
    /\ reqpc[r] = "await_json"
    /\ reqpc' = [reqpc EXCEPT ![r] = "done"]
    /\ IF req[r].shape = "not_json"
         THEN /\ response' = [response EXCEPT ![r] = "error"]
              /\ pc' = pc
         ELSE /\ pc' = IF \E q \in Reqs : q # r /\ pc[q] # "none"
                                          /\ req[q].id = req[r].id
                        THEN pc
                        ELSE [pc EXCEPT ![r] = "ready"]
              /\ response' = [response EXCEPT ![r] = AckBody(r)]
    /\ UNCHANGED <<req, result, negVars, iceVars, wav, running, log>>

\* handle_req checking the event itself and spawning a run for a connect
\* event only.
Req_Resume_ConnectOnly(r) ==
    /\ LoopFree
    /\ reqpc[r] = "await_json"
    /\ reqpc' = [reqpc EXCEPT ![r] = "done"]
    /\ IF req[r].shape = "not_json"
         THEN /\ response' = [response EXCEPT ![r] = "error"]
              /\ pc' = pc
         ELSE /\ pc' = IF req[r].shape = "connect"
                        THEN [pc EXCEPT ![r] = "ready"]
                        ELSE pc
              /\ response' = [response EXCEPT ![r] = AckBody(r)]
    /\ UNCHANGED <<req, result, negVars, iceVars, wav, running, log>>

\* req.json() completes.  A body that is not JSON raises out of handle_req
\* (no task, an error response).  Otherwise create_task schedules
\* handle_call(data) and the handler returns at once.
Req_Resume(r) ==
    /\ LoopFree
    /\ reqpc[r] = "await_json"
    /\ reqpc' = [reqpc EXCEPT ![r] = "done"]
    /\ IF req[r].shape = "not_json"
         THEN /\ response' = [response EXCEPT ![r] = "error"]
              /\ pc' = pc
         ELSE /\ pc' = [pc EXCEPT ![r] = "ready"]
              /\ response' = [response EXCEPT ![r] = AckBody(r)]
    /\ UNCHANGED <<req, result, negVars, iceVars, wav, running, log>>

-----------------------------------------------------------------------------
(* handle_call *)

\* A pre_accept that sends back the offer instead of the local answer.
PreAcceptPayload_OfferSdp(t, sdp) ==
    [run |-> t, call_id |-> req[t].id, action |-> "pre_accept", sdp |-> OFFER_X]

\* A pre_accept POST whose action field says "accept" (the two JSON bodies
\* of the source differ in that one word).
PreAcceptPayload_SaysAccept(t, sdp) ==
    [run |-> t, call_id |-> req[t].id, action |-> "accept", sdp |-> sdp]

\* The JSON of the pre_accept POST, lines 58-63.  `sdp` is
\* pc.localDescription.sdp as read when the POST is built; `run` records
\* which task issued the POST (it is not part of the JSON).
PreAcceptPayload(t, sdp) ==
    [run |-> t, call_id |-> req[t].id, action |-> "pre_accept", sdp |-> sdp]

\* An accept that sends the offer instead of the local answer.
AcceptPayload_OfferSdp(t, sdp) ==
    [run |-> t, call_id |-> req[t].id, action |-> "accept", sdp |-> OFFER_X]

\* The JSON of the accept POST, lines 73-81.
AcceptPayload(t, sdp) ==
    [run |-> t, call_id |-> req[t].id, action |-> "accept", sdp |-> sdp]

\* The task ends with an exception: nothing after the raising line runs.
Raise(t, exc) ==
    /\ pc' = [pc EXCEPT ![t] = "failed"]
    /\ result' = [result EXCEPT ![t] = exc]
    /\ running' = NoTask

\* handle_call attaching the ICE handler as soon as the session exists.
Call_Start_RegistersFirst(t) ==
    /\ LoopFree
    /\ pc[t] = "ready"
    /\ CASE req[t].shape = "no_id" ->
              /\ Raise(t, "KeyError")
              /\ registered' = registered
         [] req[t].shape = "ringing" ->
              /\ pc' = [pc EXCEPT ![t] = "done"]
              /\ result' = [result EXCEPT ![t] = "ignored"]
              /\ running' = NoTask
              /\ registered' = registered
         [] OTHER ->
              /\ pc' = [pc EXCEPT ![t] = "tts"]
              /\ running' = t
              /\ result' = result
              /\ registered' = [registered EXCEPT ![t] = TRUE]
    /\ UNCHANGED <<reqVars, answer, localSdp, iceVars, wav, log>>

\* handle_call without the event check of lines 39-40.
Call_Start_NoEventCheck(t) ==
    /\ LoopFree
    /\ pc[t] = "ready"
    /\ IF req[t].shape = "no_id"
         THEN Raise(t, "KeyError")
         ELSE /\ pc' = [pc EXCEPT ![t] = "tts"]
              /\ running' = t
              /\ result' = result
    /\ UNCHANGED <<reqVars, negVars, iceVars, wav, log>>

\* The task's first step, lines 36-46: the key lookups, the event check,
\* RTCPeerConnection(), and the entry into the synchronous generate_tts().
Call_Start(t) ==
    /\ LoopFree
    /\ pc[t] = "ready"
    /\ CASE req[t].shape = "no_id" ->
              Raise(t, "KeyError")
         [] req[t].shape = "ringing" ->
              /\ pc' = [pc EXCEPT ![t] = "done"]
              /\ result' = [result EXCEPT ![t] = "ignored"]
              /\ running' = NoTask
         [] OTHER ->
              /\ pc' = [pc EXCEPT ![t] = "tts"]
              /\ running' = t
              /\ result' = result
    /\ UNCHANGED <<reqVars, negVars, iceVars, wav, log>>

\* handle_call catching the synthesis failure, noting it, and going on.
Call_TtsEnd_GoesOn(t) ==
    /\ running = t
    /\ pc[t] = "tts"
    /\ \E ok \in BOOLEAN :
         /\ pc' = [pc EXCEPT ![t] = "await_remote"]
         /\ running' = NoTask
         /\ IF ok
              THEN wav' = t /\ result' = result
              ELSE wav' = wav /\ result' = [result EXCEPT ![t] = "SynthesisError"]
    /\ UNCHANGED <<reqVars, negVars, iceVars, log>>

\* generate_tts() returns or raises, lines 15-32 and 46-50.  On success the
\* file is written, the player opened on it, and the task suspends in
\* `await pc.setRemoteDescription`.
Call_TtsEnd(t) ==
    /\ running = t
    /\ pc[t] = "tts"
    /\ \E ok \in BOOLEAN :
         IF ok
           THEN /\ wav' = t
                /\ pc' = [pc EXCEPT ![t] = "await_remote"]
                /\ running' = NoTask
                /\ result' = result
           ELSE /\ Raise(t, "SynthesisError")
                /\ wav' = wav
    /\ UNCHANGED <<reqVars, negVars, iceVars, log>>

\* setRemoteDescription completes, lines 50-51; the task suspends in
\* `await pc.createAnswer()`.
Call_RemoteDone(t) ==
    /\ LoopFree
    /\ pc[t] = "await_remote"
    /\ \E ok \in BOOLEAN :
         IF ok
           THEN /\ pc' = [pc EXCEPT ![t] = "await_answer"]
                /\ UNCHANGED <<result, running>>
           ELSE Raise(t, "NegotiationError")
    /\ UNCHANGED <<reqVars, negVars, iceVars, wav, log>>

\* createAnswer completes, lines 51-52; the task suspends in
\* `await pc.setLocalDescription(answer)`.
Call_AnswerDone(t) ==
    /\ LoopFree
    /\ pc[t] = "await_answer"
    /\ \E ok \in BOOLEAN :
         IF ok
           THEN /\ answer' = [answer EXCEPT ![t] = AnswerOf(t)]
                /\ pc' = [pc EXCEPT ![t] = "await_local"]
                /\ UNCHANGED <<result, running>>
           ELSE /\ Raise(t, "NegotiationError")
                /\ answer' = answer
    /\ UNCHANGED <<reqVars, localSdp, registered, iceVars, wav, log>>

\* setLocalDescription completes, lines 52-64: the local description is the
\* answer, and the task goes straight into the synchronous pre_accept POST.
Call_LocalDone(t) ==
    /\ LoopFree
    /\ pc[t] = "await_local"
    /\ \E ok \in BOOLEAN :
         IF ok
           THEN /\ localSdp' = [localSdp EXCEPT ![t] = answer[t]]
                /\ log' = Append(log, PreAcceptPayload(t, localSdp'[t]))
                /\ pc' = [pc EXCEPT ![t] = "pre_accept"]
                /\ running' = t
                /\ result' = result
           ELSE /\ Raise(t, "NegotiationError")
                /\ UNCHANGED <<localSdp, log>>
    /\ UNCHANGED <<reqVars, answer, registered, iceVars, wav>>

\* handle_call staying suspended after pre_accept until connectivity is
\* reported, instead of returning.
Call_PreAcceptEnd_WaitsForIce(t) ==
    /\ running = t
    /\ pc[t] = "pre_accept"
    /\ \E o \in PostOutcomes :
         IF o = "neterr"
           THEN /\ Raise(t, "SignalingError")
                /\ registered' = registered
           ELSE /\ registered' = [registered EXCEPT ![t] = TRUE]
                /\ pc' = [pc EXCEPT ![t] = "await_ice"]
                /\ result' = result
                /\ running' = NoTask
    /\ UNCHANGED <<reqVars, answer, localSdp, iceVars, wav, log>>

\* requests.post of pre_accept returns or raises, lines 55-84.  A response
\* of any status is dropped; then the handler is attached and the task
\* returns.  An exception ends the task before line 67.
Call_PreAcceptEnd(t) ==
    /\ running = t
    /\ pc[t] = "pre_accept"
    /\ \E o \in PostOutcomes :
         IF o = "neterr"
           THEN /\ Raise(t, "SignalingError")
                /\ registered' = registered
           ELSE /\ registered' = [registered EXCEPT ![t] = TRUE]
                /\ pc' = [pc EXCEPT ![t] = "done"]
                /\ result' = [result EXCEPT ![t] = "TTS sent"]
                /\ running' = NoTask
    /\ UNCHANGED <<reqVars, answer, localSdp, iceVars, wav, log>>

-----------------------------------------------------------------------------
(* the media session and the handler of line 67 *)

\* Session t runs ICE: connectivity checks need both descriptions, so they
\* start no earlier than the call of setLocalDescription (line 52), and the
\* session is never closed by this program.
IceActive(t) == pc[t] = "await_local" \/ localSdp[t] # NoSdp

\* The session's ICE connection state changes (work of the media stack, on
\* the same event loop) and "iceconnectionstatechange" is emitted.  An
\* attached async handler is scheduled, not run; with no handler attached
\* the event is dropped.
Ice_Change(t) ==
    /\ LoopFree
    /\ IceActive(t)
    /\ iceCount < MaxIce
    /\ \E s \in IceStates \ {iceState[t]} :
         /\ iceState' = [iceState EXCEPT ![t] = s]
         /\ cbQueue' = [cbQueue EXCEPT ![t] =
                          IF registered[t] THEN Append(@, s) ELSE @]
    /\ iceCount' = iceCount + 1
    /\ UNCHANGED <<reqVars, pc, result, negVars, cbpc, lastRead, wav,
                   running, log>>

\* The handler without the test of line 69: it sends accept whatever the
\* state.
Cb_Start_NoStateTest(t) ==
    /\ LoopFree
    /\ cbQueue[t] # <<>>
    /\ cbQueue' = [cbQueue EXCEPT ![t] = Tail(@)]
    /\ lastRead' = [lastRead EXCEPT ![t] = iceState[t]]
    /\ log' = Append(log, AcceptPayload(t, localSdp[t]))
    /\ cbpc' = [cbpc EXCEPT ![t] = "accept_post"]
    /\ running' = t
    /\ UNCHANGED <<reqVars, pc, result, negVars, iceState, iceCount, wav>>

\* A scheduled handler invocation runs, lines 68-82: it reads
\* pc.iceConnectionState as it is now and, if "connected", goes into the
\* synchronous accept POST.
Cb_Start(t) ==
    /\ LoopFree
    /\ cbQueue[t] # <<>>
    /\ cbQueue' = [cbQueue EXCEPT ![t] = Tail(@)]
    /\ lastRead' = [lastRead EXCEPT ![t] = iceState[t]]
    /\ IF iceState[t] = "connected"
         THEN /\ log' = Append(log, AcceptPayload(t, localSdp[t]))
              /\ cbpc' = [cbpc EXCEPT ![t] = "accept_post"]
              /\ running' = t
         ELSE UNCHANGED <<log, cbpc, running>>
    /\ UNCHANGED <<reqVars, pc, result, negVars, iceState, iceCount, wav>>

\* requests.post of accept returns or raises: either way the handler ends.
Cb_PostEnd(t) ==
    /\ running = t
    /\ cbpc[t] = "accept_post"
    /\ cbpc' = [cbpc EXCEPT ![t] = "idle"]
    /\ running' = NoTask
    /\ UNCHANGED <<reqVars, pc, result, negVars, iceState, iceCount, cbQueue,
                   lastRead, wav, log>>

Next ==
    \/ \E r \in Reqs : Req_Arrive(r)
    \/ \E r \in Reqs : Req_Resume(r)
    \/ \E t \in Reqs : Call_Start(t)
    \/ \E t \in Reqs : Call_TtsEnd(t)
    \/ \E t \in Reqs : Call_RemoteDone(t)
    \/ \E t \in Reqs : Call_AnswerDone(t)
    \/ \E t \in Reqs : Call_LocalDone(t)
    \/ \E t \in Reqs : Call_PreAcceptEnd(t)
    \/ \E t \in Reqs : Ice_Change(t)
    \/ \E t \in Reqs : Cb_Start(t)
    \/ \E t \in Reqs : Cb_PostEnd(t)

Spec == Init /\ [][Next]_vars

-----------------------------------------------------------------------------
(* Vocabulary of the properties *)

\* Positions in the log of the POSTs of run t with action a.
Posts(t, a) == {i \in DOMAIN log : log[i].run = t /\ log[i].action = a}

\* A handler invocation of session t runs in this step.
HandlerRuns(t) == Len(cbQueue'[t]) < Len(cbQueue[t])

\* Task t is inside one of the three synchronous calls.
InSyncCall(t) == pc[t] \in {"tts", "pre_accept"} \/ cbpc[t] = "accept_post"

\* The CallSession state of the specification, read off what run t has sent.
SessionState(t) ==
    CASE Posts(t, "accept") # {} -> "Connected"
      [] Posts(t, "pre_accept") # {} -> "PreAccepted"
      [] pc[t] = "failed" -> "Failed"
      [] OTHER -> "Negotiating"

\* Run t holds a MediaPlayer opened on /tmp/welcome.wav (line 47): from the
\* return of generate_tts on, for as long as its session lives.
HasPlayer(t) ==
    /\ req[t].shape = "connect"
    /\ pc[t] \in {"await_remote", "await_answer", "await_local",
                  "pre_accept", "done"}

\* This step appends one POST of run t with action a to the log.
Sends(t, a) ==
    /\ Len(log') = Len(log) + 1
    /\ log'[Len(log')].run = t
    /\ log'[Len(log')].action = a

-----------------------------------------------------------------------------
(* Properties *)

\* C1: every accept POST in the log is preceded by a pre_accept POST of the
\* same run, which carries the same call_id: no accept is sent before a
\* pre_accept for that call_id.
C1_PreAcceptBeforeAccept ==
    \A i \in DOMAIN log :
        log[i].action = "accept" =>
            \E j \in 1..(i - 1) :
                /\ log[j].action = "pre_accept"
                /\ log[j].run = log[i].run
                /\ log[j].call_id = log[i].call_id

\* C1 witness: two runs for one call_id, and an accept in the log.
C1_Witness ==
    \E i \in DOMAIN log, t, u \in Reqs :
        /\ log[i].action = "accept"
        /\ t # u
        /\ req[t].id = req[u].id
        /\ Posts(t, "pre_accept") # {}
        /\ Posts(u, "pre_accept") # {}

\* C2 (as claimed): when a handler invocation reads "connected" and the
\* invocation before it also read "connected", it sends nothing.
C2_SecondConnectedSendsNothing ==
    [][\A t \in Reqs :
          (HandlerRuns(t) /\ lastRead[t] = "connected"
             /\ lastRead'[t] = "connected") => log' = log]_vars

\* C3 (as claimed): once a request whose event is not "connect" is handled,
\* the dispatcher has answered "ignored" and started no run.
C3_IgnoredAndNoRun ==
    \A r \in Reqs :
        (reqpc[r] = "done" /\ req[r].shape = "ringing") =>
            (response[r] = "ignored" /\ pc[r] = "none")

\* C3 (amended): once a request whose event is not "connect" is handled,
\* the dispatcher has answered "OK" and started one run; that run returns
\* "ignored" in its first step and makes no downstream call: no file
\* written, no answer, no handler attached, no ICE, no POST.
C3_OkAndRunIgnores ==
    \A r \in Reqs :
        (reqpc[r] = "done" /\ req[r].shape = "ringing") =>
            /\ response[r] = "OK"
            /\ pc[r] \in {"ready", "done"}
            /\ pc[r] = "done" => result[r] = "ignored"
            /\ wav # r /\ answer[r] = NoSdp /\ localSdp[r] = NoSdp
            /\ ~registered[r] /\ iceState[r] = "new" /\ cbQueue[r] = <<>>
            /\ \A i \in DOMAIN log : log[i].run # r

\* C3 witness: a non-connect run has returned while a connect run has sent.
C3_Witness ==
    \E r, t \in Reqs :
        /\ req[r].shape = "ringing" /\ pc[r] = "done"
        /\ result[r] = "ignored"
        /\ Posts(t, "pre_accept") # {}

\* C4: a run that has started (and so a run that has completed) belongs to
\* a request already acknowledged: the acknowledgment is returned while the
\* run is still only scheduled.
C4_AckBeforeRunStarts ==
    \A r \in Reqs : pc[r] \notin {"none", "ready"} => response[r] = "OK"

\* C4 witness: a connect run is inside synthesis, its request acknowledged.
C4_Witness ==
    \E r \in Reqs :
        req[r].shape = "connect" /\ pc[r] = "tts" /\ response[r] = "OK"

\* C5: a run that ended in a synthesis or negotiation failure has sent no
\* signaling action and has no handler that could ever send one.
C5_FailureSendsNothing ==
    \A t \in Reqs :
        result[t] \in {"SynthesisError", "NegotiationError"} =>
            /\ \A i \in DOMAIN log : log[i].run # t
            /\ ~registered[t] /\ cbQueue[t] = <<>> /\ cbpc[t] = "idle"

\* C5 witness: one run failed in synthesis, another after createAnswer,
\* and ICE has moved since.
C5_Witness ==
    \E t, u \in Reqs :
        /\ result[t] = "SynthesisError"
        /\ result[u] = "NegotiationError" /\ answer[u] # NoSdp
        /\ iceState[u] # "new"

\* C6 (as claimed): a run whose pre_accept send failed keeps its session
\* watched.  (A non-2xx response is returned like a 2xx one, so the failed
\* send the run can tell apart is the one that raised.)
C6_FailedPreAcceptStaysWatched ==
    \A t \in Reqs : result[t] = "SignalingError" => registered[t]

\* C7: once synthesis and negotiation have succeeded for a connect event,
\* the run has sent exactly one pre_accept, carrying the event's call_id and
\* the answer of its own negotiation; while that POST is in flight the
\* session is PreAccepted.  A run sends no pre_accept otherwise.
C7_OnePreAccept ==
    \A t \in Reqs :
        /\ (req[t].shape = "connect" /\ localSdp[t] # NoSdp) =>
              /\ Cardinality(Posts(t, "pre_accept")) = 1
              /\ \A i \in Posts(t, "pre_accept") :
                    /\ log[i].call_id = req[t].id
                    /\ log[i].sdp = AnswerOf(t)
                    /\ log[i].sdp = localSdp[t]
        /\ localSdp[t] = NoSdp => Posts(t, "pre_accept") = {}
        /\ pc[t] = "pre_accept" => SessionState(t) = "PreAccepted"

\* C7 witness: a run returned "TTS sent" with its one pre_accept logged.
C7_Witness ==
    \E t \in Reqs :
        /\ result[t] = "TTS sent"
        /\ Cardinality(Posts(t, "pre_accept")) = 1

\* C8: when a handler invocation of a run that sent pre_accept reads
\* "connected", the step sends one accept, equal to that pre_accept in
\* call_id and SDP, and the session is Connected after it.
C8_AcceptMatchesPreAccept ==
    [][\A t \in Reqs :
          (HandlerRuns(t) /\ iceState[t] = "connected"
             /\ Posts(t, "pre_accept") # {}) =>
              /\ \E i \in Posts(t, "pre_accept") :
                    log' = Append(log, [log[i] EXCEPT !.action = "accept"])
              /\ SessionState(t)' = "Connected"]_vars

\* C8 witness: an accept POST is in flight for a session that read
\* "connected".
C8_Witness ==
    \E t \in Reqs :
        /\ cbpc[t] = "accept_post" /\ lastRead[t] = "connected"
        /\ Posts(t, "pre_accept") # {} /\ Posts(t, "accept") # {}

\* C9: a handled request whose body is JSON was answered "OK", whatever its
\* event kind and whatever became of its run.
C9_AlwaysOk ==
    \A r \in Reqs :
        (reqpc[r] = "done" /\ req[r].shape # "not_json") => response[r] = "OK"

\* C9 witness: requests of a non-connect kind and of a malformed body were
\* answered "OK", and a run has failed.
C9_Witness ==
    \E r, q \in Reqs :
        /\ req[r].shape = "ringing" /\ response[r] = "OK"
        /\ req[q].shape = "no_id" /\ response[q] = "OK"
        /\ pc[q] = "failed"

\* C10 (as claimed): while some run is inside synthesis or a signaling
\* POST, every request received can still be acknowledged.
C10_IngressNeverBlocked ==
    (\E t \in Reqs : InSyncCall(t)) =>
        \A r \in Reqs : reqpc[r] = "await_json" => ENABLED Req_Resume(r)

\* C11 (as claimed): the greeting file a run plays from is the one that run
\* wrote: no other run has written /tmp/welcome.wav since.
C11_GreetingNotOverwritten ==
    \A t \in Reqs : HasPlayer(t) => wav = t

\* C12 (as claimed): a handler invocation that runs when the session has
\* already sent accept (Connected), or right after an invocation that read
\* "failed" (Failed), sends nothing.
C12_LateNotificationSendsNothing ==
    [][\A t \in Reqs :
          (HandlerRuns(t)
             /\ (SessionState(t) = "Connected" \/ lastRead[t] = "failed"))
            => log' = log]_vars

\* C13: a step that sends accept for run t is a handler invocation of
\* session t that reads "connected"; an invocation that reads any other
\* state sends nothing.
C13_AcceptOnlyOnConnected ==
    [][\A t \in Reqs :
          /\ Sends(t, "accept") =>
                (HandlerRuns(t) /\ iceState[t] = "connected")
          /\ (HandlerRuns(t) /\ iceState[t] # "connected") => log' = log]_vars

\* C13 witness: every ICE change has been handled, the latest invocation
\* read "connecting", and no accept of that run is in the log.
C13_Witness ==
    \E t \in Reqs :
        /\ registered[t] /\ lastRead[t] = "connecting"
        /\ iceCount = MaxIce /\ cbQueue[t] = <<>>
        /\ Posts(t, "accept") = {}

\* The transitions the specification allows a CallSession.
ForwardEdges ==
    {<<"Negotiating", "PreAccepted">>, <<"PreAccepted", "Connected">>,
     <<"Connected", "Terminated">>, <<"Negotiating", "Failed">>,
     <<"PreAccepted", "Failed">>, <<"Connected", "Failed">>}

C15_NoDedup ==
    \A t, u \in Reqs :
        (/\ t # u
         /\ req[t].shape = "connect" /\ req[u].shape = "connect"
         /\ req[t].id = req[u].id
         /\ reqpc[t] = "done" /\ reqpc[u] = "done") =>
            /\ pc[t] # "none" /\ pc[u] # "none"
            /\ localSdp[t] # NoSdp =>
                  \E i \in Posts(t, "pre_accept") :
                      /\ log[i].call_id = req[u].id
                      /\ log[i].sdp = AnswerOf(t)
                      /\ log[i].sdp # localSdp[u]

\* C15 witness: two runs for one call_id have both returned "TTS sent",
\* their two pre_accepts carrying different answers.
C15_Witness ==
    \E t, u \in Reqs :
        /\ t # u /\ req[t].id = req[u].id
        /\ result[t] = "TTS sent" /\ result[u] = "TTS sent"
        /\ \E i \in Posts(t, "pre_accept"), j \in Posts(u, "pre_accept") :
              log[i].sdp # log[j].sdp

\* C16: the step after the pre_accept POST is the end of the task (returned
\* with the handler attached, or raised), with no ICE change awaited in
\* between; and a step that sends accept for run t is a handler invocation
\* running after handle_call has returned.
C16_RunNeverWaits ==
    [][\A t \in Reqs :
          /\ pc[t] = "pre_accept" =>
                /\ pc'[t] \in {"done", "failed"}
                /\ iceCount' = iceCount
                /\ pc'[t] = "done" => registered'[t]
          /\ Sends(t, "accept") =>
                (HandlerRuns(t) /\ pc[t] = "done" /\ pc'[t] = "done")]_vars

\* C16 witness: a run has returned "TTS sent" and no ICE change was ever
\* reported.
C16_Witness ==
    \E t \in Reqs :
        result[t] = "TTS sent" /\ registered[t] /\ iceCount = 0

\* C17: the step in which the run of a non-connect event executes only
\* returns "ignored": it leaves the greeting file, every session's
\* description, handler and ICE state, and the log as they were, and gives
\* the loop back.
C17_NonConnectNoEffect ==
    [][\A t \in Reqs :
          (req[t].shape = "ringing" /\ pc[t] = "ready" /\ pc'[t] # "ready") =>
              /\ pc'[t] = "done" /\ result'[t] = "ignored"
              /\ running' = NoTask
              /\ UNCHANGED <<wav, negVars, iceVars, log>>]_vars

\* C17 witness: the run of a non-connect event has returned with nothing
\* written and nothing sent.
C17_Witness ==
    \E t \in Reqs :
        /\ req[t].shape = "ringing" /\ result[t] = "ignored"
        /\ wav = NoTask /\ log = <<>>

\* C18 (as claimed): once the local answer of a session is set, every
\* change of its ICE state to "connected" schedules the accept handler.
C18_ConnectedReachesHandler ==
    [][\A t \in Reqs :
          (localSdp[t] # NoSdp /\ iceState[t] # "connected"
             /\ iceState'[t] = "connected") =>
              cbQueue'[t] = Append(cbQueue[t], "connected")]_vars

\* C19: the runs started are exactly the requests acknowledged "OK", which
\* are exactly the handled requests with a JSON body, whatever the event;
\* "ignored" is a result of the run, never the dispatcher's answer.
C19_OneTaskPerOk ==
    /\ \A r \in Reqs :
          /\ pc[r] # "none" <=> response[r] = "OK"
          /\ response[r] = "OK" <=>
                (reqpc[r] = "done" /\ req[r].shape # "not_json")
          /\ result[r] = "ignored" => (pc[r] = "done" /\ response[r] = "OK")
          /\ response[r] # "ignored"
    /\ Cardinality({t \in Reqs : pc[t] # "none"})
         = Cardinality({r \in Reqs : response[r] = "OK"})

\* C19 witness: the run of a non-connect event is spawned and has not yet
\* run its event check, and a body that is not JSON got no run.
C19_Witness ==
    \E r, q \in Reqs :
        /\ req[r].shape = "ringing" /\ pc[r] = "ready" /\ response[r] = "OK"
        /\ reqpc[q] = "done" /\ response[q] = "error" /\ pc[q] = "none"
====
